---- MODULE Spec2Model ----
(***************************************************************************)
(* Model of the market-pipeline repository: the SQLite tick store          *)
(* (src/src/storage.py), the pull source (src/src/fetcher.py), the signal  *)
(* detector (src/src/signals.py), the alert fan-out (src/src/alerts.py),   *)
(* the polling loop (src/src/pipeline.py), the Alpaca WebSocket stream     *)
(* (src/src/alpaca_stream.py) and the dashboard's signal buffer and        *)
(* database reads (src/dashboard/app.py).                                  *)
(*                                                                         *)
(* The specifications share the variables:                                 *)
(*   SpecStore  - arbitrary calls on a DataStore                           *)
(*   SpecPoll   - run_pipeline, one step per statement of the loop body    *)
(*   SpecStream - AlpacaStream: construction, run / stop / timer threads   *)
(*   SpecDetect - calls of SignalDetector.detect                           *)
(*   SpecBuffer - push_signal and api_signals on the signal buffer         *)
(*   SpecShared - one writer and several readers of the database file      *)
(*   SpecAlert  - AlertManager construction and fire                       *)
(* SpecPollFair and SpecStreamFair add the fairness the liveness           *)
(* properties need.                                                        *)
(***************************************************************************)
EXTENDS Integers, Sequences, FiniteSets, TLC

VARIABLES
    \* ---- DataStore (storage.py) ----
    conn,        \* self.conn: "none" | "open" | "closed"
    store,       \* rows of table ticks, in rowid order (the database file)
    rt,          \* the last call if it was get_recent: what preceded it, its arguments, its result
    rq,          \* the last call if it was get_range or get_symbols: its arguments, its result
    raised,      \* TRUE iff the last DataStore call raised
    pending,     \* <<t>> iff the last DataStore call that took effect was insert_tick(t)
    \* ---- run_pipeline (pipeline.py) ----
    pc,          \* position of the polling loop
    iteration,   \* local variable iteration
    symIdx,      \* index of the for-loop over symbols (1-based)
    tick,        \* local variable tick: <<>> or <<t>>
    history,     \* local variable history
    fired,       \* fired_signals still to be dispatched
    yfOk,        \* TRUE iff the yfinance import succeeded (yf is not None)
    sweepLog,    \* the calls of the current sweep: <<[op, symbol, res]>>
    lastFire,    \* the last AlertManager.fire call: its failing channels, its sends, its outcome
    lastFetch,   \* the last fetch call: [src, res]
    interrupted, \* TRUE once KeyboardInterrupt was delivered
    max_iterations, \* parameter max_iterations: <<>> (None) or <<N>>
    errors,      \* number of "Error processing" records logged so far
    sleeps,      \* number of time.sleep(interval_seconds) calls so far
    \* ---- AlpacaStream (alpaca_stream.py) ----
    running,     \* self._running
    ws,          \* self._ws and its connection: "none" | "connecting" | "open" | "closing" | "closed"
    timers,      \* pending threading.Timer objects: <<[delay, fn]>>
    runPc,       \* position of the thread executing run(): "idle" | "create" | "forever"
    stopPc,      \* position of the thread executing stop(): "idle" | "close" | "returned"
    sent,        \* messages sent on the current connection
    delivered,   \* number of on_tick calls
    connects,    \* number of run() invocations so far
    closeLog,    \* one entry per _on_close call: the value of _running it saw
    scheduled,   \* number of Timer objects started so far
    msgs,        \* number of messages received so far
    msgLog,      \* one entry per _on_message call: the message and, per event, what was delivered
    \* ---- SignalDetector (signals.py) ----
    detector,    \* the attributes of a SignalDetector instance
    dTick,       \* the Tick object a caller passes to detect
    dHistory,    \* the list a caller passes to detect
    calls,       \* the detect calls so far: <<[tick, history, out]>>
    \* ---- dashboard signal buffer (dashboard/app.py) ----
    signal_buffer,\* _signal_buffer
    signal_lock, \* _signal_lock: "free" or the thread that holds it
    bufPc,       \* position of each thread in push_signal or api_signals
    pushed,      \* every signal appended so far, in the order of the appends
    seen,        \* <<>> or <<list>>: what the last api_signals call returned
    \* ---- one database file, several connections (storage.py, dashboard/app.py) ----
    dbfile,      \* the committed rows of data/ticks.db, as every connection sees them
    txn,         \* rows of the open transaction of DataStore.conn, not yet committed
    wTick,       \* <<>> or <<t>>: the tick of the insert_tick call in progress
    returned,    \* the ticks whose insert_tick call has returned, in order
    lastRead,    \* the last read: who made it, what had returned and what was in flight then, its result
    \* ---- AlpacaStream.__init__ (alpaca_stream.py) ----
    environ,     \* os.environ: ALPACA_API_KEY and ALPACA_SECRET_KEY, each <<>> (unset) or <<text>>
    wsAvailable, \* _WS_AVAILABLE: the websocket-client import succeeded
    built,       \* "no" before AlpacaStream(...) is evaluated, then "ok" or the exception raised
    api_key,     \* self.api_key of the object constructed
    secret,      \* self.secret of the object constructed
    \* ---- AlertManager (alerts.py) ----
    alertArg,    \* the channels argument of AlertManager(...): <<>> (None) or <<list>>
    mgrBuilt,    \* TRUE once AlertManager(...) was evaluated
    mgrChannels, \* self.channels of the AlertManager
    fireLog      \* one entry per fire call: the signal type and the sends made

storeVars == <<conn, store, rt, rq, raised, pending>>
pollVars == <<pc, iteration, symIdx, tick, history, fired, yfOk, sweepLog,
              lastFire, lastFetch, interrupted, max_iterations, errors, sleeps>>
streamVars == <<running, ws, timers, runPc, stopPc, sent, delivered, connects,
                closeLog, scheduled, msgs, msgLog>>
detectVars == <<detector, dTick, dHistory, calls>>
bufferVars == <<signal_buffer, signal_lock, bufPc, pushed, seen>>
sharedVars == <<dbfile, txn, wTick, returned, lastRead>>
ctorVars == <<environ, wsAvailable, built, api_key, secret>>
alertVars == <<alertArg, mgrBuilt, mgrChannels, fireLog>>
vars == <<conn, store, rt, rq, raised, pending,
          pc, iteration, symIdx, tick, history, fired, yfOk, sweepLog,
          lastFire, lastFetch, interrupted, max_iterations, errors, sleeps,
          running, ws, timers, runPc, stopPc, sent, delivered, connects,
          closeLog, scheduled, msgs, msgLog,
          detector, dTick, dHistory, calls,
          signal_buffer, signal_lock, bufPc, pushed, seen,
          dbfile, txn, wTick, returned, lastRead,
          environ, wsAvailable, built, api_key, secret,
          alertArg, mgrBuilt, mgrChannels, fireLog>>

(***************************************************************************)
(* Bounds of the model.                                                    *)
(***************************************************************************)
MinTs == 9           \* timestamps are the seconds MinTs..MaxTs of one minute
MaxTs == 11
MaxRows == 4         \* SpecStore: inserts per behaviour
MaxN == 3            \* SpecStore: largest n passed to get_recent
MaxSweeps == 2       \* SpecPoll: sweeps per behaviour
MaxConnects == 3     \* SpecStream: run() invocations per behaviour
MaxMessages == 2     \* SpecStream: inbound messages per behaviour
MaxHist == 3         \* SpecDetect: earlier ticks in a history
MaxCalls == 3        \* SpecDetect: detect calls per behaviour
MaxShared == 3       \* SpecShared: insert_tick calls per behaviour
MaxFires == 2        \* SpecAlert: fire calls per behaviour
MaxPushes == 52      \* SpecBuffer: push_signal calls per behaviour

(***************************************************************************)
(* Values.                                                                 *)
(***************************************************************************)
None == <<>>
Some(v) == <<v>>
IsNone(o) == o = <<>>
Val(o) == o[1]

Symbols == <<"AAPL", "MSFT">>
SymbolSet == {Symbols[i] : i \in 1..Len(Symbols)}
Timestamps == MinTs..MaxTs

Min(a, b) == IF a < b THEN a ELSE b
Abs(x) == IF x < 0 THEN 0 - x ELSE x

Reverse(s) == [i \in 1..Len(s) |-> s[Len(s) + 1 - i]]

\* dataclass Tick; open/high/low of a fetched bar bracket the close
Tick(sym, ts, price, volume, vwap) ==
    [symbol |-> sym, timestamp |-> ts, price |-> price, volume |-> volume,
     open |-> Some(price), high |-> Some(price + 1), low |-> Some(price - 1),
     vwap |-> vwap]

(***************************************************************************)
(* datetime.isoformat / datetime.fromisoformat.  Only the seconds field    *)
(* varies in the model; isoformat writes it as two zero-padded digits, and *)
(* SQLite compares the TEXT column ts character by character.              *)
(***************************************************************************)
isoformat(ts) == <<ts \div 10, ts % 10>>

fromisoformat(s) == s[1] * 10 + s[2]

\* BINARY collation of two TEXT values: first differing character decides,
\* a proper prefix sorts first
TextLess(a, b) ==
    \E i \in 1..(Min(Len(a), Len(b)) + 1) :
        /\ \A j \in 1..(i - 1) : a[j] = b[j]
        /\ \/ i = Len(a) + 1 /\ i <= Len(b)
           \/ i <= Len(a) /\ i <= Len(b) /\ a[i] < b[i]

(***************************************************************************)
(* DataStore                                                               *)
(***************************************************************************)
\* id INTEGER PRIMARY KEY AUTOINCREMENT: one more than the largest id so far;
\* rows are never deleted, so that is the number of rows
NextId(rows) == Len(rows) + 1

\* the parameter tuple of the INSERT statement
TickToRow(rows, t) ==
    [id |-> NextId(rows), symbol |-> t.symbol, ts |-> isoformat(t.timestamp),
     price |-> t.price, volume |-> t.volume,
     open |-> t.open, high |-> t.high, low |-> t.low, vwap |-> t.vwap]

\* _row_to_tick reading high and low from each other's column
_row_to_tick_swapped(row) ==
    [symbol |-> row.symbol, timestamp |-> fromisoformat(row.ts),
     price |-> row.price, volume |-> row.volume,
     open |-> row.open, high |-> row.low, low |-> row.high, vwap |-> row.vwap]

_row_to_tick(row) ==
    [symbol |-> row.symbol, timestamp |-> fromisoformat(row.ts),
     price |-> row.price, volume |-> row.volume,
     open |-> row.open, high |-> row.high, low |-> row.low, vwap |-> row.vwap]

\* insert_tick catching the database error instead of letting it out
insert_tick_swallowing(c, rows, t, dbOk) ==
    IF c = "open" /\ dbOk
    THEN [store |-> Append(rows, [id |-> Len(rows) + 1, symbol |-> t.symbol,
                                  ts |-> <<t.timestamp \div 10, t.timestamp % 10>>,
                                  price |-> t.price, volume |-> t.volume,
                                  open |-> t.open, high |-> t.high, low |-> t.low,
                                  vwap |-> t.vwap]),
          raised |-> FALSE]
    ELSE [store |-> rows, raised |-> FALSE]

\* insert_tick: execute + commit.  dbOk = FALSE is a failing statement
\* (sqlite3.Error) or a connection that is not open; nothing catches it.
insert_tick(c, rows, t, dbOk) ==
    IF c = "open" /\ dbOk
    THEN [store |-> Append(rows, TickToRow(rows, t)), raised |-> FALSE]
    ELSE [store |-> rows, raised |-> TRUE]

\* order of two index entries of idx_symbol_ts(symbol, ts) within one symbol:
\* by ts, then by rowid
IndexLeq(q, r) == TextLess(q.ts, r.ts) \/ (q.ts = r.ts /\ q.id <= r.id)

\* ORDER BY ts DESC, served by scanning idx_symbol_ts backwards
RECURSIVE OrderByTsDesc(_)
OrderByTsDesc(S) ==
    IF S = {} THEN <<>>
    ELSE LET m == CHOOSE r \in S : \A q \in S : IndexLeq(q, r)
         IN <<m>> \o OrderByTsDesc(S \ {m})

\* LIMIT n: a negative n means no limit
Limit(s, n) == IF n < 0 THEN s ELSE SubSeq(s, 1, Min(n, Len(s)))

WhereSymbol(rows, sym) == {rows[i] : i \in {j \in 1..Len(rows) : rows[j].symbol = sym}}

\* get_recent without reversed(rows): newest first
get_recent_newest_first(rows, sym, n) ==
    LET sel == Limit(OrderByTsDesc(WhereSymbol(rows, sym)), n)
    IN [i \in 1..Len(sel) |-> _row_to_tick(sel[i])]

get_recent(rows, sym, n) ==
    LET sel == Limit(OrderByTsDesc(WhereSymbol(rows, sym)), n)
        rev == Reverse(sel)
    IN [i \in 1..Len(rev) |-> _row_to_tick(rev[i])]

\* get_range without its ORDER BY ts ASC: the rows in rowid order
get_range_rowid_order(rows, sym, start, end) ==
    LET sel == SelectSeq(rows, LAMBDA r : r.symbol = sym /\ ~TextLess(r.ts, start)
                                            /\ ~TextLess(end, r.ts))
    IN [i \in 1..Len(sel) |-> _row_to_tick(sel[i])]

\* get_range: WHERE symbol = ? AND ts >= ? AND ts <= ? ORDER BY ts ASC, served
\* by scanning idx_symbol_ts forwards; start and end are ISO texts
get_range(rows, sym, start, end) ==
    LET S == {r \in WhereSymbol(rows, sym) : ~TextLess(r.ts, start) /\ ~TextLess(end, r.ts)}
        asc == Reverse(OrderByTsDesc(S))
    IN [i \in 1..Len(asc) |-> _row_to_tick(asc[i])]

\* the symbols the model uses, in the order of the BINARY collation
Collation == <<"", "AAPL", "MSFT", "SPY">>

\* get_symbols: SELECT DISTINCT symbol ... ORDER BY symbol
get_symbols(rows) ==
    SelectSeq(Collation, LAMBDA sym : \E i \in 1..Len(rows) : rows[i].symbol = sym)

(***************************************************************************)
(* MarketFetcher.fetch.  src is what yfinance does for the call: it fails  *)
(* (a transport error), returns an empty frame, or returns bars; a bar     *)
(* frame is given by its last bar and the day's sums of Volume and of      *)
(* Close * Volume.                                                         *)
(***************************************************************************)
SrcError == [kind |-> "error"]
SrcEmpty == [kind |-> "empty"]
SrcBars(ts, close, volume, volSum, pvSum) ==
    [kind |-> "bars", ts |-> ts, close |-> close, volume |-> volume,
     volSum |-> volSum, pvSum |-> pvSum]

\* fetch letting the failure of the data source out
fetch_reraising(yf, symbol, src) ==
    IF ~yf THEN [res |-> "raise", tick |-> None]
    ELSE IF src.kind = "error" THEN [res |-> "raise", tick |-> None]
    ELSE IF src.kind = "empty" THEN [res |-> "none", tick |-> None]
    ELSE LET vwap == IF src.volSum > 0 THEN src.pvSum \div src.volSum ELSE 0
         IN [res |-> "tick",
             tick |-> Some(Tick(symbol, src.ts, src.close, src.volume,
                                IF vwap # 0 THEN Some(vwap) ELSE None))]

fetch(yf, symbol, src) ==
    IF ~yf THEN [res |-> "raise", tick |-> None]
    ELSE IF src.kind = "error" THEN [res |-> "none", tick |-> None]
    ELSE IF src.kind = "empty" THEN [res |-> "none", tick |-> None]
    ELSE LET vwap == IF src.volSum > 0 THEN src.pvSum \div src.volSum ELSE 0
         IN [res |-> "tick",
             tick |-> Some(Tick(symbol, src.ts, src.close, src.volume,
                                IF vwap # 0 THEN Some(vwap) ELSE None))]

(***************************************************************************)
(* SignalDetector.  Prices, volumes and ranges are integers; a threshold   *)
(* is the fraction <<numerator, denominator>>, and every comparison of a   *)
(* quotient with a threshold is cross-multiplied.                          *)
(***************************************************************************)
DefaultDetector ==
    [price_spike_zscore |-> <<5, 2>>,
     volume_surge_multiplier |-> <<3, 1>>,
     volatility_burst_multiplier |-> <<5, 2>>,
     vwap_deviation_pct |-> <<1, 2>>,
     min_history |-> 10]

RECURSIVE Sum(_)
Sum(s) == IF s = <<>> THEN 0 ELSE s[1] + Sum(Tail(s))

\* round(a / b) for integers a and b # 0: the nearest integer, a tie to the
\* even one
RoundDiv(a, b) ==
    LET n == IF b < 0 THEN 0 - a ELSE a
        d == Abs(b)
        q == n \div d
        r == n % d
    IN IF 2 * r < d THEN q
       ELSE IF 2 * r > d THEN q + 1
       ELSE IF q % 2 = 0 THEN q ELSE q + 1

\* round(a / b, digits) as the fraction <<numerator, 10^digits>>
Round(a, b, digits) == <<RoundDiv(a * 10 ^ digits, b), 10 ^ digits>>

\* dataclass Signal; direction is the direction word of the message
Signal(type, t, direction, metadata) ==
    [signal_type |-> type, symbol |-> t.symbol, timestamp |-> t.timestamp,
     price |-> t.price, direction |-> direction, metadata |-> metadata]

\* bool(x) of an optional number: neither None nor 0
Truthy(o) == ~IsNone(o) /\ Val(o) # 0

\* _check_price_spike comparing zscore, not abs(zscore), with the threshold
_check_price_spike_upward(det, t, past) ==
    LET prices == [i \in 1..Len(past) |-> past[i].price]
        n == Len(prices)
        S == Sum(prices)
        Q == Sum([i \in 1..n |-> prices[i] * prices[i]])
        V == n * Q - S * S
        d == n * t.price - S
        thr == det.price_spike_zscore
    IN IF n < 2 THEN <<>>
       ELSE IF V = 0 THEN <<>>
       ELSE IF d > 0 /\ d * d * (n - 1) * thr[2] * thr[2] >= thr[1] * thr[1] * n * V
            THEN <<Signal("PRICE_SPIKE", t, IF d > 0 THEN "above" ELSE "below",
                          [mean |-> Round(S, n, 4)])>>
            ELSE <<>>

\* zscore = (price - mean) / stdev, stdev with the n-1 denominator:
\* zscore^2 = (n*price - S)^2 * (n-1) / (n * (n*Q - S^2)).  Of the metadata
\* only mean is carried: zscore and stdev are square roots.
_check_price_spike(det, t, past) ==
    LET prices == [i \in 1..Len(past) |-> past[i].price]
        n == Len(prices)
        S == Sum(prices)
        Q == Sum([i \in 1..n |-> prices[i] * prices[i]])
        V == n * Q - S * S
        d == n * t.price - S
        thr == det.price_spike_zscore
    IN IF n < 2 THEN <<>>
       ELSE IF V = 0 THEN <<>>
       ELSE IF d * d * (n - 1) * thr[2] * thr[2] >= thr[1] * thr[1] * n * V
            THEN <<Signal("PRICE_SPIKE", t, IF d > 0 THEN "above" ELSE "below",
                          [mean |-> Round(S, n, 4)])>>
            ELSE <<>>

\* _check_volume_surge averaging over every past volume, zeros included
_check_volume_surge_all(det, t, past) ==
    LET volumes == [i \in 1..Len(past) |-> past[i].volume]
        k == Len(volumes)
        S == Sum(volumes)
        thr == det.volume_surge_multiplier
    IN IF k = 0 THEN <<>>
       ELSE IF S = 0 THEN <<>>
       ELSE IF t.volume * k * thr[2] >= thr[1] * S
            THEN <<Signal("VOLUME_SURGE", t, "none",
                          [ratio |-> Round(t.volume * k, S, 2),
                           avg_volume |-> RoundDiv(S, k)])>>
            ELSE <<>>

\* ratio = volume / avg_vol, avg_vol = S / k
_check_volume_surge(det, t, past) ==
    LET volumes == SelectSeq([i \in 1..Len(past) |-> past[i].volume], LAMBDA v : v > 0)
        k == Len(volumes)
        S == Sum(volumes)
        thr == det.volume_surge_multiplier
    IN IF k = 0 THEN <<>>
       ELSE IF S = 0 THEN <<>>
       ELSE IF t.volume * k * thr[2] >= thr[1] * S
            THEN <<Signal("VOLUME_SURGE", t, "none",
                          [ratio |-> Round(t.volume * k, S, 2),
                           avg_volume |-> RoundDiv(S, k)])>>
            ELSE <<>>

\* _check_volatility_burst firing when the ratio is at most the multiplier
_check_volatility_burst_inverted(det, t, past) ==
    LET with == SelectSeq(past, LAMBDA x : Truthy(x.high) /\ Truthy(x.low))
        k == Len(with)
        S == Sum([i \in 1..k |-> Val(with[i].high) - Val(with[i].low)])
        thr == det.volatility_burst_multiplier
    IN IF k = 0 THEN [raised |-> FALSE, signals |-> <<>>]
       ELSE IF S = 0 THEN [raised |-> FALSE, signals |-> <<>>]
       ELSE IF IsNone(t.high) \/ IsNone(t.low) THEN [raised |-> TRUE, signals |-> <<>>]
       ELSE LET cur == Val(t.high) - Val(t.low)
                le == IF S > 0 THEN cur * k * thr[2] <= thr[1] * S
                               ELSE cur * k * thr[2] >= thr[1] * S
            IN [raised |-> FALSE,
                signals |-> IF le
                            THEN <<Signal("VOLATILITY_BURST", t, "none",
                                          [range |-> Round(cur, 1, 4),
                                           avg_range |-> Round(S, k, 4),
                                           ratio |-> Round(cur * k, S, 2)])>>
                            ELSE <<>>]

\* ratio = current_range / avg_range, avg_range = S / k; tick.high - tick.low
\* is a TypeError when either is None
_check_volatility_burst(det, t, past) ==
    LET with == SelectSeq(past, LAMBDA x : Truthy(x.high) /\ Truthy(x.low))
        k == Len(with)
        S == Sum([i \in 1..k |-> Val(with[i].high) - Val(with[i].low)])
        thr == det.volatility_burst_multiplier
    IN IF k = 0 THEN [raised |-> FALSE, signals |-> <<>>]
       ELSE IF S = 0 THEN [raised |-> FALSE, signals |-> <<>>]
       ELSE IF IsNone(t.high) \/ IsNone(t.low) THEN [raised |-> TRUE, signals |-> <<>>]
       ELSE LET cur == Val(t.high) - Val(t.low)
                ge == IF S > 0 THEN cur * k * thr[2] >= thr[1] * S
                               ELSE cur * k * thr[2] <= thr[1] * S
            IN [raised |-> FALSE,
                signals |-> IF ge
                            THEN <<Signal("VOLATILITY_BURST", t, "none",
                                          [range |-> Round(cur, 1, 4),
                                           avg_range |-> Round(S, k, 4),
                                           ratio |-> Round(cur * k, S, 2)])>>
                            ELSE <<>>]

\* _check_vwap_deviation firing only above the threshold, not at it
_check_vwap_deviation_strict(det, t) ==
    LET thr == det.vwap_deviation_pct IN
    IF IsNone(t.vwap) THEN <<>>
    ELSE IF Val(t.vwap) = 0 THEN <<>>
    ELSE LET v == Val(t.vwap)
             lhs == Abs(t.price - v) * 100 * thr[2]
             ge == IF v > 0 THEN lhs > thr[1] * v ELSE lhs < thr[1] * v
         IN IF ge THEN <<Signal("VWAP_DEVIATION", t,
                                IF t.price > v THEN "above" ELSE "below",
                                [deviation_pct |-> Round(Abs(t.price - v) * 100, v, 3),
                                 vwap |-> v])>>
            ELSE <<>>

\* deviation_pct = |price - vwap| / vwap * 100
_check_vwap_deviation(det, t) ==
    LET thr == det.vwap_deviation_pct IN
    IF IsNone(t.vwap) THEN <<>>
    ELSE IF Val(t.vwap) = 0 THEN <<>>
    ELSE LET v == Val(t.vwap)
             lhs == Abs(t.price - v) * 100 * thr[2]
             ge == IF v > 0 THEN lhs >= thr[1] * v ELSE lhs <= thr[1] * v
         IN IF ge THEN <<Signal("VWAP_DEVIATION", t,
                                IF t.price > v THEN "above" ELSE "below",
                                [deviation_pct |-> Round(Abs(t.price - v) * 100, v, 3),
                                 vwap |-> v])>>
            ELSE <<>>

\* detect without the warm-up gate
detect_ungated(det, t, hist) ==
    LET past == IF Len(hist) > 1 THEN SubSeq(hist, 1, Len(hist) - 1) ELSE hist
        vb == _check_volatility_burst(det, t, past)
    IN IF vb.raised THEN [raised |-> TRUE, signals |-> <<>>]
       ELSE [raised |-> FALSE,
             signals |-> _check_price_spike(det, t, past)
                           \o _check_volume_surge(det, t, past)
                           \o vb.signals
                           \o _check_vwap_deviation(det, t)]

detect(det, t, hist) ==
    IF Len(hist) < det.min_history THEN [raised |-> FALSE, signals |-> <<>>]
    ELSE LET past == IF Len(hist) > 1 THEN SubSeq(hist, 1, Len(hist) - 1) ELSE hist
             vb == _check_volatility_burst(det, t, past)
         IN IF vb.raised THEN [raised |-> TRUE, signals |-> <<>>]
            ELSE [raised |-> FALSE,
                  signals |-> _check_price_spike(det, t, past)
                                \o _check_volume_surge(det, t, past)
                                \o vb.signals
                                \o _check_vwap_deviation(det, t)]

(***************************************************************************)
(* AlertManager.  failing is the set of positions of the channels whose    *)
(* send raises for this signal.                                            *)
(***************************************************************************)
DefaultChannels == <<"ConsoleChannel", "FileChannel">>

\* fire without the try/except around send: the first failure ends it
fire_stops_at_failure(channels, failing) ==
    LET upto == IF failing \cap (1..Len(channels)) = {} THEN Len(channels)
                ELSE CHOOSE i \in failing : \A j \in failing : i <= j
    IN [sends |-> [i \in 1..upto |-> [channel |-> channels[i], ok |-> i \notin failing]],
        raised |-> upto \in failing]

fire(channels, failing) ==
    [sends |-> [i \in 1..Len(channels) |-> [channel |-> channels[i], ok |-> i \notin failing]],
     raised |-> FALSE]

\* AlertManager.__init__: self.channels = channels or [ConsoleChannel(),
\* FileChannel()]; None and the empty list are both falsy
AlertManager_init(arg) ==
    IF IsNone(arg) \/ Val(arg) = <<>> THEN DefaultChannels ELSE Val(arg)

(***************************************************************************)
(* AlpacaStream: the trade parser and the close handler.  A field of an    *)
(* inbound event is missing, a number, or some other text.                 *)
(***************************************************************************)
Missing == [kind |-> "missing", v |-> 0]
Num(v) == [kind |-> "num", v |-> v]
Text == [kind |-> "text", v |-> 0]
\* an ISO-8601 timestamp with the Z suffix
IsoZ(ts) == [kind |-> "iso", v |-> isoformat(ts)]

TradeEvent(S, p, sz, t) == [T |-> "t", S |-> S, p |-> p, s |-> sz, t |-> t]
AuthSuccess == [T |-> "success", msg |-> "authenticated"]
ErrorEvent == [T |-> "error", msg |-> "error"]

\* _parse_trade: an unparsable or missing "t" becomes utcnow(); a missing
\* "p" or "s" becomes 0 and a missing "S" the empty string; float() or
\* int() of other text raises ValueError
_parse_trade(event, now) ==
    LET ts == IF event.t.kind = "iso" THEN fromisoformat(event.t.v) ELSE now
        price == event.p.v
        size == event.s.v
    IN IF event.p.kind = "text" \/ event.s.kind = "text"
       THEN [raised |-> TRUE, tick |-> None]
       ELSE [raised |-> FALSE,
             tick |-> Some([symbol |-> IF IsNone(event.S) THEN "" ELSE Val(event.S),
                            timestamp |-> ts, price |-> price, volume |-> size,
                            open |-> Some(price), high |-> Some(price),
                            low |-> Some(price), vwap |-> None])]

\* an environment variable: unset, set to the empty text, or set to a key
EnvValues == {None, Some(""), Some("k")}

\* os.environ.get(name, "")
environ_get(v) == IF IsNone(v) THEN "" ELSE Val(v)

\* __init__ testing the key alone
AlpacaStream_init_KeyOnly(avail, env) ==
    IF ~avail THEN [raised |-> "ImportError", api_key |-> "", secret |-> ""]
    ELSE LET k == environ_get(env.key)
             sec == environ_get(env.secret)
         IN IF k = ""
            THEN [raised |-> "EnvironmentError", api_key |-> "", secret |-> ""]
            ELSE [raised |-> "none", api_key |-> k, secret |-> sec]

\* AlpacaStream.__init__: ImportError without websocket-client, then the
\* attributes, then EnvironmentError when the key or the secret is empty;
\* an __init__ that raises leaves the caller without an object
AlpacaStream_init(avail, env) ==
    IF ~avail THEN [raised |-> "ImportError", api_key |-> "", secret |-> ""]
    ELSE LET k == environ_get(env.key)
             sec == environ_get(env.secret)
         IN IF k = "" \/ sec = ""
            THEN [raised |-> "EnvironmentError", api_key |-> "", secret |-> ""]
            ELSE [raised |-> "none", api_key |-> k, secret |-> sec]

ReconnectDelay == 5

\* _on_close starting the timer without looking at _running
_on_close_always(run, tms) == Append(tms, [delay |-> 5, fn |-> "run"])

\* _on_close that never schedules a reconnect
_on_close_never(run, tms) == tms

\* _on_close: the timers pending after the handler ran
_on_close(run, tms) ==
    IF run THEN Append(tms, [delay |-> ReconnectDelay, fn |-> "run"]) ELSE tms

(***************************************************************************)
(* SpecStore: a DataStore on a fresh database file, called arbitrarily.    *)
(***************************************************************************)
\* the ticks offered to insert_tick
StoreTicks ==
    {Tick("AAPL", ts, 100, 10, None) : ts \in {MinTs, MaxTs}}
        \cup {Tick("AAPL", MaxTs, 101, 20, Some(100)), Tick("MSFT", MinTs, 100, 10, Some(100))}

\* symbols asked for: the configured ones and one that is never inserted
QuerySymbols == SymbolSet \cup {"SPY"}

\* the <<start, end>> passed to get_range: everything, the last instant only,
\* and an empty range
Ranges == {<<MinTs, MaxTs>>, <<MaxTs, MaxTs>>, <<MaxTs, MinTs>>}

NoCall == [called |-> FALSE]

StoreIdle ==
    /\ conn = "none"
    /\ store = <<>>
    /\ rt = NoCall
    /\ rq = NoCall
    /\ raised = FALSE
    /\ pending = None

PollIdle ==
    /\ pc = "idle"
    /\ iteration = 0
    /\ symIdx = 0
    /\ tick = None
    /\ history = <<>>
    /\ fired = <<>>
    /\ yfOk = TRUE
    /\ sweepLog = <<>>
    /\ lastFire = NoCall
    /\ lastFetch = NoCall
    /\ interrupted = FALSE
    /\ max_iterations = None
    /\ errors = 0
    /\ sleeps = 0

StreamIdle ==
    /\ running = FALSE
    /\ ws = "none"
    /\ timers = <<>>
    /\ runPc = "idle"
    /\ stopPc = "idle"
    /\ sent = <<>>
    /\ delivered = 0
    /\ connects = 0
    /\ closeLog = <<>>
    /\ scheduled = 0
    /\ msgs = 0
    /\ msgLog = <<>>

DetectIdle ==
    /\ detector = DefaultDetector
    /\ dTick = None
    /\ dHistory = <<>>
    /\ calls = <<>>

BufferIdle ==
    /\ signal_buffer = <<>>
    /\ signal_lock = "free"
    /\ bufPc = [th \in {"pipeline", "worker", "reader"} |-> "idle"]
    /\ pushed = <<>>
    /\ seen = None

SharedIdle ==
    /\ dbfile = <<>>
    /\ txn = <<>>
    /\ wTick = None
    /\ returned = <<>>
    /\ lastRead = NoCall

CtorIdle ==
    /\ environ = [key |-> None, secret |-> None]
    /\ wsAvailable = FALSE
    /\ built = "no"
    /\ api_key = ""
    /\ secret = ""

AlertIdle ==
    /\ alertArg = None
    /\ mgrBuilt = FALSE
    /\ mgrChannels = <<>>
    /\ fireLog = <<>>

InitStore == StoreIdle /\ PollIdle /\ StreamIdle /\ DetectIdle /\ BufferIdle /\ SharedIdle /\ CtorIdle /\ AlertIdle

\* DataStore.initialize: connect, CREATE TABLE / INDEX IF NOT EXISTS, commit
initialize ==
    /\ conn' = "open"
    /\ raised' = FALSE
    /\ UNCHANGED <<store, rt, rq, pending>>

\* DataStore.insert_tick(t)
StoreInsert ==
    \E t \in StoreTicks, dbOk \in BOOLEAN :
        /\ Len(store) < MaxRows
        /\ LET r == insert_tick(conn, store, t, dbOk) IN
            /\ store' = r.store
            /\ raised' = r.raised
            /\ pending' = IF r.raised THEN pending ELSE Some(t)
            /\ rt' = IF r.raised THEN rt ELSE NoCall
            /\ rq' = IF r.raised THEN rq ELSE NoCall
        /\ UNCHANGED conn

\* DataStore.get_recent(sym, n)
StoreGetRecent ==
    \E sym \in QuerySymbols, n \in 0..MaxN :
        /\ IF conn = "open"
           THEN /\ rt' = [called |-> TRUE, after |-> pending, symbol |-> sym,
                          n |-> n, result |-> get_recent(store, sym, n)]
                /\ raised' = FALSE
           ELSE /\ rt' = NoCall
                /\ raised' = TRUE
        /\ pending' = None
        /\ rq' = NoCall
        /\ UNCHANGED <<conn, store>>

\* DataStore.get_range(sym, start, end)
StoreGetRange ==
    \E sym \in QuerySymbols, r \in Ranges :
        /\ IF conn = "open"
           THEN /\ rq' = [called |-> TRUE, op |-> "get_range", symbol |-> sym,
                          start |-> r[1], end |-> r[2],
                          result |-> get_range(store, sym, isoformat(r[1]), isoformat(r[2]))]
                /\ raised' = FALSE
           ELSE /\ rq' = NoCall
                /\ raised' = TRUE
        /\ pending' = None
        /\ rt' = NoCall
        /\ UNCHANGED <<conn, store>>

\* DataStore.get_symbols()
StoreGetSymbols ==
    /\ IF conn = "open"
       THEN /\ rq' = [called |-> TRUE, op |-> "get_symbols", result |-> get_symbols(store)]
            /\ raised' = FALSE
       ELSE /\ rq' = NoCall
            /\ raised' = TRUE
    /\ pending' = None
    /\ rt' = NoCall
    /\ UNCHANGED <<conn, store>>

\* DataStore.close
close ==
    /\ conn' = IF conn = "none" THEN "none" ELSE "closed"
    /\ raised' = FALSE
    /\ UNCHANGED <<store, rt, rq, pending>>

StoreOnly == UNCHANGED <<pollVars, streamVars, detectVars, bufferVars, sharedVars, ctorVars, alertVars>>

NextStore ==
    \/ initialize /\ StoreOnly
    \/ StoreInsert /\ StoreOnly
    \/ StoreGetRecent /\ StoreOnly
    \/ StoreGetRange /\ StoreOnly
    \/ StoreGetSymbols /\ StoreOnly
    \/ close /\ StoreOnly

SpecStore == InitStore /\ [][NextStore]_vars

\* the stored ticks of one symbol, in rowid order
StoredTicks(sym) ==
    LET idx == SelectSeq([i \in 1..Len(store) |-> i], LAMBDA i : store[i].symbol = sym)
    IN [k \in 1..Len(idx) |-> _row_to_tick(store[idx[k]])]

Count(s, x) == Cardinality({i \in 1..Len(s) : s[i] = x})
CountLater(s, ts) == Cardinality({i \in 1..Len(s) : s[i].timestamp > ts})

\* C4 as claimed: insert_tick(t) followed by get_recent(t.symbol, 1) returns
\* exactly the one tick t, whatever the store held before (later or equal
\* timestamps of the same symbol included).
C4_RoundTripAnyPrior ==
    (rt.called /\ ~IsNone(rt.after) /\ rt.symbol = Val(rt.after).symbol /\ rt.n = 1)
        => rt.result = <<Val(rt.after)>>

\* C4 amended: insert_tick(t) followed by get_recent(t.symbol, 1) returns
\* exactly the one tick t, equal in every field, provided no stored tick of
\* that symbol has a timestamp later than t's (equal timestamps allowed).
C4_RoundTripLatest ==
    (rt.called /\ ~IsNone(rt.after) /\ rt.symbol = Val(rt.after).symbol /\ rt.n = 1
        /\ CountLater(StoredTicks(rt.symbol), Val(rt.after).timestamp) = 0)
        => rt.result = <<Val(rt.after)>>

\* a round trip over a store that already holds an earlier tick and a
\* different tick of the same timestamp
C4_Witness ==
    /\ rt.called /\ ~IsNone(rt.after) /\ rt.symbol = Val(rt.after).symbol /\ rt.n = 1
    /\ rt.result = <<Val(rt.after)>>
    /\ \E i, j \in 1..Len(store) :
        /\ store[i].symbol = rt.symbol /\ store[j].symbol = rt.symbol
        /\ fromisoformat(store[i].ts) < Val(rt.after).timestamp
        /\ store[j].ts = isoformat(Val(rt.after).timestamp)
        /\ _row_to_tick(store[j]) # Val(rt.after)

\* C10: get_recent(symbol, n) returns at most n ticks, all of the requested
\* symbol, oldest first, and they are the n most recent stored ticks of that
\* symbol by timestamp; an unknown symbol gives the empty sequence.
C10_GetRecent ==
    rt.called =>
        LET res == rt.result
            all == StoredTicks(rt.symbol)
        IN /\ Len(res) = Min(rt.n, Len(all))
           /\ \A i \in 1..Len(res) : res[i].symbol = rt.symbol
           /\ \A i \in 1..Len(res) : Count(res, res[i]) <= Count(all, res[i])
           /\ \A i, j \in 1..Len(res) : i < j => res[i].timestamp <= res[j].timestamp
           /\ Len(res) > 0 =>
                CountLater(all, res[1].timestamp) = CountLater(res, res[1].timestamp)
           /\ (\A i \in 1..Len(store) : store[i].symbol # rt.symbol) => res = <<>>

\* a call that had to cut and reorder: more ticks stored than asked for,
\* inserted newest first, and another symbol present
C10_Witness ==
    /\ rt.called /\ rt.n = 2 /\ Len(rt.result) = 2
    /\ Len(StoredTicks(rt.symbol)) = 3
    /\ StoredTicks(rt.symbol)[1].timestamp > StoredTicks(rt.symbol)[2].timestamp
    /\ rt.result[1].timestamp < rt.result[2].timestamp
    /\ Len(store) > 3

\* the rows of one sequence are the first rows of the other, unchanged
IsPrefix(s, t) == Len(s) <= Len(t) /\ \A i \in 1..Len(s) : t[i] = s[i]

\* C11: the store is append-only and reads are ordered: no call of
\* initialize, insert_tick, get_recent, get_range, get_symbols or close changes
\* or removes a stored row; the only change is a successful insert_tick(t)
\* adding one row that reads back as t; and the ticks returned by get_recent
\* and by get_range are in non-decreasing timestamp order.
C11_AppendOnlyOrdered ==
    /\ [](/\ rt.called =>
               \A i, j \in 1..Len(rt.result) :
                   i < j => rt.result[i].timestamp <= rt.result[j].timestamp
          /\ (rq.called /\ rq.op = "get_range") =>
               \A i, j \in 1..Len(rq.result) :
                   i < j => rq.result[i].timestamp <= rq.result[j].timestamp)
    /\ [][/\ IsPrefix(store, store')
          /\ store' # store =>
                /\ ~raised' /\ ~IsNone(pending') /\ Len(store') = Len(store) + 1
                /\ _row_to_tick(store'[Len(store')]) = Val(pending')]_vars

\* a get_range over ticks that were inserted newest first, with a tick of
\* another symbol stored between them, after the store was closed and reopened
C11_Witness ==
    /\ rq.called /\ rq.op = "get_range" /\ Len(rq.result) = 3
    /\ rq.result[1].timestamp < rq.result[3].timestamp
    /\ Len(store) = 4
    /\ store[1].symbol = rq.symbol /\ store[2].symbol # rq.symbol
    /\ fromisoformat(store[1].ts) > fromisoformat(store[3].ts)
    /\ _row_to_tick(store[1]) = rq.result[3]

(***************************************************************************)
(* SpecPoll: run_pipeline(Symbols, interval, max_iterations), one action   *)
(* per statement of the loop body.  The database file may hold the ticks   *)
(* of earlier runs.                                                        *)
(***************************************************************************)
\* nine AAPL ticks of an earlier run, one short of min_history
EarlierRun ==
    [i \in 1..9 |->
        [id |-> i, symbol |-> "AAPL", ts |-> isoformat(i - 1),
         price |-> 100 + (i % 2), volume |-> 10,
         open |-> Some(100 + (i % 2)), high |-> Some(101 + (i % 2)),
         low |-> Some(99 + (i % 2)), vwap |-> None]]

PriorStores == {<<>>, EarlierRun}

\* what the data source can answer for a symbol: a failure, no data, a
\* quiet bar, or (for AAPL) a bar far off the earlier prices and volumes
Sources(sym) ==
    {SrcError, SrcEmpty, SrcBars(MaxTs, 100, 10, 10, 1000)}
        \cup (IF sym = "AAPL"
              THEN {SrcBars(MaxTs - 1, 100, 10, 10, 1000), SrcBars(MaxTs - 1, 104, 40, 40, 4000)}
              ELSE {})

InitPoll ==
    /\ conn = "none"
    /\ store \in PriorStores
    /\ rt = NoCall
    /\ rq = NoCall
    /\ raised = FALSE
    /\ pending = None
    /\ pc = "start"
    /\ iteration = 0
    /\ symIdx = 0
    /\ tick = None
    /\ history = <<>>
    /\ fired = <<>>
    /\ yfOk \in BOOLEAN
    /\ sweepLog = <<>>
    /\ lastFire = NoCall
    /\ lastFetch = NoCall
    /\ interrupted = FALSE
    /\ max_iterations \in {None} \cup {Some(n) : n \in 1..MaxSweeps}
    /\ errors = 0
    /\ sleeps = 0
    /\ StreamIdle
    /\ DetectIdle
    /\ BufferIdle
    /\ SharedIdle
    /\ CtorIdle
    /\ AlertIdle

symbol == Symbols[symIdx]

LoopCondition(it) == IsNone(max_iterations) \/ it < Val(max_iterations)

Logged(op, res) == Append(sweepLog, [op |-> op, symbol |-> symbol, res |-> res])

\* the end of a pass that sleeps after every sweep, the last one included
NextSymbol_AlwaysSleeps ==
    IF symIdx < Len(Symbols)
    THEN /\ symIdx' = symIdx + 1
         /\ pc' = "fetch"
         /\ UNCHANGED iteration
    ELSE /\ symIdx' = 0
         /\ iteration' = iteration + 1
         /\ pc' = "sleep"

\* the end of one pass of the for-loop body: the next symbol, or the end of
\* the sweep (iteration += 1, then sleep unless the cap is reached)
NextSymbol ==
    IF symIdx < Len(Symbols)
    THEN /\ symIdx' = symIdx + 1
         /\ pc' = "fetch"
         /\ UNCHANGED iteration
    ELSE /\ symIdx' = 0
         /\ iteration' = iteration + 1
         /\ pc' = IF LoopCondition(iteration + 1) THEN "sleep" ELSE "while"

\* the handler around the whole for-loop: an exception ends the sweep
Handler_EndsSweep ==
    /\ errors' = errors + 1
    /\ symIdx' = 0
    /\ iteration' = iteration + 1
    /\ pc' = IF LoopCondition(iteration + 1) THEN "sleep" ELSE "while"

\* except Exception inside the for-loop: log the error, go on with the next symbol
Handler ==
    /\ errors' = errors + 1
    /\ NextSymbol

\* store.initialize() before the loop
PollStart ==
    /\ pc = "start"
    /\ conn' = "open"
    /\ pc' = "while"
    /\ UNCHANGED <<store, rt, rq, raised, pending, iteration, symIdx, tick, history, fired,
                   yfOk, sweepLog, lastFire, lastFetch, interrupted, max_iterations, errors, sleeps>>

\* while max_iterations is None or iteration < max_iterations: enter the sweep
PollWhile ==
    /\ pc = "while"
    /\ IF LoopCondition(iteration)
       THEN /\ iteration < MaxSweeps
            /\ pc' = "fetch"
            /\ symIdx' = 1
            /\ sweepLog' = <<>>
       ELSE /\ pc' = "close"
            /\ UNCHANGED <<symIdx, sweepLog>>
    /\ UNCHANGED <<storeVars, iteration, tick, history, fired, yfOk, lastFire, lastFetch,
                   interrupted, max_iterations, errors, sleeps>>

\* tick = fetcher.fetch(symbol); None: continue; an exception: logged
PollFetch ==
    /\ pc = "fetch"
    /\ \E src \in Sources(symbol) :
        LET r == fetch(yfOk, symbol, src) IN
        /\ lastFetch' = [called |-> TRUE, src |-> src, res |-> r.res]
        /\ sweepLog' = Logged("fetch", r.res)
        /\ tick' = r.tick
        /\ IF r.res = "tick"
           THEN pc' = "insert" /\ UNCHANGED <<symIdx, iteration, errors, sleeps>>
           ELSE IF r.res = "raise"
           THEN Handler
           ELSE NextSymbol /\ UNCHANGED errors
    /\ UNCHANGED <<storeVars, history, fired, yfOk, lastFire, interrupted, max_iterations, sleeps>>

\* store.insert_tick(tick)
PollInsert ==
    /\ pc = "insert"
    /\ \E dbOk \in BOOLEAN :
        LET r == insert_tick(conn, store, Val(tick), dbOk) IN
        /\ store' = r.store
        /\ raised' = r.raised
        /\ sweepLog' = Logged("insert", IF r.raised THEN "raise"
                                        ELSE IF r.store = store THEN "lost" ELSE "stored")
        /\ IF r.raised
           THEN Handler
           ELSE pc' = "get_recent" /\ UNCHANGED <<symIdx, iteration, errors, sleeps>>
    /\ UNCHANGED <<conn, rt, rq, pending, tick, history, fired, yfOk, lastFire, lastFetch,
                   interrupted, max_iterations, sleeps>>

\* history = store.get_recent(symbol, n=50)
PollGetRecent ==
    /\ pc = "get_recent"
    /\ \E dbOk \in BOOLEAN :
        /\ raised' = ~dbOk
        /\ sweepLog' = Logged("get_recent", IF dbOk THEN "ok" ELSE "raise")
        /\ IF dbOk
           THEN /\ history' = get_recent(store, symbol, 50)
                /\ pc' = "detect"
                /\ UNCHANGED <<symIdx, iteration, errors, sleeps>>
           ELSE /\ Handler
                /\ UNCHANGED history
    /\ UNCHANGED <<conn, store, rt, rq, pending, tick, fired, yfOk, lastFire, lastFetch,
                   interrupted, max_iterations, sleeps>>

\* fired_signals = detector.detect(tick, history)
PollDetect ==
    /\ pc = "detect"
    /\ LET d == detect(DefaultDetector, Val(tick), history) IN
        /\ sweepLog' = Logged("detect", IF d.raised THEN "raise" ELSE "ok")
        /\ fired' = d.signals
        /\ IF d.raised
           THEN Handler
           ELSE IF d.signals = <<>>
           THEN NextSymbol /\ UNCHANGED errors
           ELSE pc' = "fire" /\ UNCHANGED <<symIdx, iteration, errors, sleeps>>
    /\ UNCHANGED <<storeVars, tick, history, yfOk, lastFire, lastFetch, interrupted,
                   max_iterations, sleeps>>

\* alerts.fire(signal) for the next of fired_signals
PollFire ==
    /\ pc = "fire"
    /\ \E failing \in SUBSET (1..Len(DefaultChannels)) :
        LET r == fire(DefaultChannels, failing) IN
        /\ lastFire' = [called |-> TRUE, failing |-> failing, sends |-> r.sends,
                        raised |-> r.raised]
        /\ sweepLog' = Logged("fire", IF r.raised THEN "raise" ELSE "ok")
        /\ fired' = IF r.raised THEN <<>> ELSE Tail(fired)
        /\ IF r.raised
           THEN Handler
           ELSE IF Len(fired) = 1
           THEN NextSymbol /\ UNCHANGED errors
           ELSE pc' = "fire" /\ UNCHANGED <<symIdx, iteration, errors, sleeps>>
    /\ UNCHANGED <<storeVars, tick, history, yfOk, lastFetch, interrupted, max_iterations, sleeps>>

\* time.sleep(interval_seconds)
PollSleep ==
    /\ pc = "sleep"
    /\ pc' = "while"
    /\ sleeps' = sleeps + 1
    /\ UNCHANGED <<storeVars, iteration, symIdx, tick, history, fired, yfOk, sweepLog,
                   lastFire, lastFetch, interrupted, max_iterations, errors>>

\* KeyboardInterrupt.  It is not an Exception, so inside the try block only
\* the outer handler catches it and breaks; outside the try block it leaves
\* run_pipeline.
PollInterrupt ==
    /\ ~interrupted
    /\ pc \in {"while", "fetch", "insert", "get_recent", "detect", "fire", "sleep", "close"}
    /\ interrupted' = TRUE
    /\ pc' = IF pc \in {"while", "close"} THEN "aborted" ELSE "close"
    /\ UNCHANGED <<storeVars, iteration, symIdx, tick, history, fired, yfOk, sweepLog,
                   lastFire, lastFetch, max_iterations, errors, sleeps>>

\* store.close() after the loop
PollClose ==
    /\ pc = "close"
    /\ conn' = "closed"
    /\ pc' = "done"
    /\ UNCHANGED <<store, rt, rq, raised, pending, iteration, symIdx, tick, history, fired,
                   yfOk, sweepLog, lastFire, lastFetch, interrupted, max_iterations, errors, sleeps>>

PollOnly == UNCHANGED <<streamVars, detectVars, bufferVars, sharedVars, ctorVars, alertVars>>

NextPoll ==
    \/ PollStart /\ PollOnly
    \/ PollWhile /\ PollOnly
    \/ PollFetch /\ PollOnly
    \/ PollInsert /\ PollOnly
    \/ PollGetRecent /\ PollOnly
    \/ PollDetect /\ PollOnly
    \/ PollFire /\ PollOnly
    \/ PollSleep /\ PollOnly
    \/ PollInterrupt /\ PollOnly
    \/ PollClose /\ PollOnly

SpecPoll == InitPoll /\ [][NextPoll]_vars

FetchSeq(log) ==
    LET f == SelectSeq(log, LAMBDA e : e.op = "fetch")
    IN [i \in 1..Len(f) |-> f[i].symbol]

InSweep == pc \in {"fetch", "insert", "get_recent", "detect", "fire"}

\* the loop has left its body for good
LoopOver == pc \in {"close", "done", "aborted"}

\* C2 as claimed: a KeyboardInterrupt that arrives during a sweep lets the
\* sweep finish - every symbol of it is fetched and every fetched tick is
\* passed to insert_tick - before the store is closed and run_pipeline returns.
C2_StopFinishesSweep ==
    (interrupted /\ pc = "done") =>
        /\ sweepLog # <<>> => FetchSeq(sweepLog) = Symbols
        /\ \A i \in 1..Len(sweepLog) :
            (sweepLog[i].op = "fetch" /\ sweepLog[i].res = "tick") =>
                \E j \in 1..Len(sweepLog) :
                    sweepLog[j].op = "insert" /\ sweepLog[j].symbol = sweepLog[i].symbol

\* C3 as claimed: a transport error of the data source makes fetch raise,
\* and fetch returns None only when the source has no data.
C3_FetchRaisesTransportError ==
    (lastFetch.called /\ yfOk) =>
        /\ lastFetch.src.kind = "error" => lastFetch.res = "raise"
        /\ lastFetch.res = "none" => lastFetch.src.kind = "empty"

\* C3 amended: a transport error of the data source is logged inside fetch
\* and fetch returns None for it, exactly as for a source without data;
\* fetch raises only when yfinance is not installed.
C3_FetchSwallowsTransportError ==
    lastFetch.called =>
        /\ (yfOk /\ lastFetch.src.kind = "error") => lastFetch.res = "none"
        /\ lastFetch.res = "none" => lastFetch.src.kind \in {"error", "empty"}
        /\ lastFetch.res = "raise" <=> ~yfOk
        /\ (lastFetch.res # "tick" /\ sweepLog # <<>>) =>
                sweepLog[Len(sweepLog)].op = "fetch"

\* the source failed for the second symbol and the sweep went on
C3_Witness ==
    /\ lastFetch.called /\ lastFetch.src.kind = "error" /\ lastFetch.res = "none"
    /\ Len(sweepLog) > 1
    /\ sweepLog[Len(sweepLog)] = [op |-> "fetch", symbol |-> Symbols[2], res |-> "none"]
    /\ errors = 0

\* C6: every sweep attempts fetch for every configured symbol in list
\* order, whatever failed for an earlier symbol; a symbol whose fetch gave
\* no data or raised gets no insert, detect or dispatch in that sweep; and
\* the loop ends only by the iteration cap or a stop request.
C6_SweepIsolation ==
    /\ InSweep =>
        FetchSeq(sweepLog) = SubSeq(Symbols, 1, IF pc = "fetch" THEN symIdx - 1 ELSE symIdx)
    /\ (symIdx = 0 /\ iteration > 0) => FetchSeq(sweepLog) = Symbols
    /\ \A i \in 1..Len(sweepLog) :
        (sweepLog[i].op = "fetch" /\ sweepLog[i].res # "tick") =>
            \A j \in 1..Len(sweepLog) : sweepLog[j].symbol = sweepLog[i].symbol => j = i
    /\ LoopOver => (interrupted \/ ~LoopCondition(iteration))

\* a second sweep, after errors in the first, in which the first symbol gave
\* no data, and the second symbol was fetched and stored
C6_Witness ==
    /\ iteration = 1 /\ errors > 0
    /\ Len(sweepLog) >= 3
    /\ sweepLog[1] = [op |-> "fetch", symbol |-> Symbols[1], res |-> "none"]
    /\ sweepLog[2] = [op |-> "fetch", symbol |-> Symbols[2], res |-> "tick"]
    /\ sweepLog[3] = [op |-> "insert", symbol |-> Symbols[2], res |-> "stored"]
    /\ \A i \in 1..Len(sweepLog) : sweepLog[i].res # "raise"

\* C7: fire calls send once on every channel in list order, whichever
\* channels fail, and returns normally.
C7_FireIsolation ==
    lastFire.called =>
        /\ ~lastFire.raised
        /\ Len(lastFire.sends) = Len(DefaultChannels)
        /\ \A i \in 1..Len(lastFire.sends) :
            /\ lastFire.sends[i].channel = DefaultChannels[i]
            /\ lastFire.sends[i].ok <=> i \notin lastFire.failing
        /\ (sweepLog # <<>> /\ sweepLog[Len(sweepLog)].op = "fire")
                => sweepLog[Len(sweepLog)].res = "ok"

\* the first channel failed, the second received the signal, and the next
\* signal of the same tick is up for dispatch
C7_Witness ==
    /\ lastFire.called /\ lastFire.failing = {1}
    /\ lastFire.sends[2].ok
    /\ pc = "fire" /\ fired # <<>>
    /\ sweepLog[Len(sweepLog)].op = "fire"

\* C8: a failed insert_tick raises (no tick is reported stored without
\* being stored); for that tick no get_recent, detect or fire follows; the
\* loop goes on with the next symbol, and ends only by the cap or a stop.
C8_InsertFailure ==
    /\ \A i \in 1..Len(sweepLog) :
        sweepLog[i].op = "insert" =>
            /\ sweepLog[i].res # "lost"
            /\ sweepLog[i].res = "raise" =>
                \A j \in (i + 1)..Len(sweepLog) : sweepLog[j].symbol # sweepLog[i].symbol
    /\ (sweepLog # <<>> /\ sweepLog[Len(sweepLog)].op = "insert"
            /\ sweepLog[Len(sweepLog)].res = "raise" /\ ~interrupted) =>
        \/ pc = "fetch" /\ Symbols[symIdx - 1] = sweepLog[Len(sweepLog)].symbol
        \/ symIdx = 0 /\ sweepLog[Len(sweepLog)].symbol = Symbols[Len(Symbols)]
    /\ LoopOver => (interrupted \/ ~LoopCondition(iteration))

\* insert_tick failed for the first symbol, the second symbol was stored in
\* the same sweep, and the loop sleeps before the next sweep
C8_Witness ==
    /\ Len(sweepLog) >= 4
    /\ sweepLog[2] = [op |-> "insert", symbol |-> Symbols[1], res |-> "raise"]
    /\ sweepLog[3].op = "fetch" /\ sweepLog[3].symbol = Symbols[2]
    /\ sweepLog[4] = [op |-> "insert", symbol |-> Symbols[2], res |-> "stored"]
    /\ errors = 1
    /\ pc = "sleep"

\* C9 as claimed: the history passed to detect has the tick being processed
\* as its last element.
C9_HistoryEndsWithTick ==
    pc = "detect" => (history # <<>> /\ history[Len(history)] = Val(tick))

\* run_pipeline keeps executing: every step of it that is not the delivery
\* of KeyboardInterrupt is taken if it stays possible
\* C26 as claimed: the store never holds two records with the same symbol
\* and the same timestamp.
C26_KeyedBySymbolTimestamp ==
    \A i, j \in 1..Len(store) :
        (store[i].symbol = store[j].symbol /\ store[i].ts = store[j].ts) => i = j

PollStep ==
    \/ PollStart \/ PollWhile \/ PollFetch \/ PollInsert \/ PollGetRecent
    \/ PollDetect \/ PollFire \/ PollSleep \/ PollClose

SpecPollFair == SpecPoll /\ WF_vars(PollStep /\ PollOnly)

\* C20: with an iteration cap N and no stop request, a sleep happens only
\* after a completed sweep that is not the last (so there are never more
\* sleeps than completed sweeps short of N); the loop ends, and when it has
\* ended it has made exactly N sweeps and N - 1 sleeps and closed the store.
C20_IterationCap ==
    /\ []((~IsNone(max_iterations) /\ ~interrupted) =>
            LET N == Val(max_iterations) IN
            /\ iteration <= N
            /\ sleeps = IF pc = "sleep" \/ iteration = N THEN iteration - 1 ELSE iteration
            /\ pc = "sleep" => (iteration >= 1 /\ iteration < N)
            /\ pc = "done" => (iteration = N /\ sleeps = N - 1 /\ conn = "closed"))
    /\ (~IsNone(max_iterations) => <>(pc = "done" \/ interrupted))

\* a run with cap 2 that ended without a stop request, both sweeps having
\* fetched and stored a tick
C20_Witness ==
    /\ pc = "done" /\ ~interrupted
    /\ max_iterations = Some(2)
    /\ iteration = 2 /\ sleeps = 1 /\ conn = "closed"
    /\ Len(store) >= 2

(***************************************************************************)
(* SpecStream: an AlpacaStream wired as in the module docstring (on_tick   *)
(* stores the tick, reads the recent window, detects and dispatches).      *)
(* run() is called once by the application and again by every reconnect    *)
(* timer; stop() is called once, from another thread, at any time.         *)
(***************************************************************************)
\* the inbound messages: JSON arrays of events
Messages ==
    {<<AuthSuccess>>,
     <<ErrorEvent>>,
     <<TradeEvent(Some("AAPL"), Num(100), Num(10), IsoZ(MaxTs))>>,
     <<TradeEvent(Some("AAPL"), Num(101), Num(10), IsoZ(MinTs))>>,
     <<TradeEvent(Some("AAPL"), Text, Num(10), IsoZ(MaxTs))>>,
     <<TradeEvent(None, Missing, Missing, Missing)>>,
     <<ErrorEvent, TradeEvent(Some("MSFT"), Num(100), Num(10), Text)>>}

\* utcnow() while a message is handled: not before any trade of the feed
Clock == {MaxTs}

InitStream ==
    /\ conn = "open"
    /\ store = <<>>
    /\ rt = NoCall
    /\ rq = NoCall
    /\ raised = FALSE
    /\ pending = None
    /\ pc = "idle"
    /\ iteration = 0
    /\ symIdx = 0
    /\ tick = None
    /\ history = <<>>
    /\ fired = <<>>
    /\ yfOk = TRUE
    /\ sweepLog = <<>>
    /\ lastFire = NoCall
    /\ lastFetch = NoCall
    /\ interrupted = FALSE
    /\ max_iterations = None
    /\ errors = 0
    /\ sleeps = 0
    /\ StreamIdle
    /\ DetectIdle
    /\ BufferIdle
    /\ SharedIdle
    /\ environ \in [key : EnvValues, secret : EnvValues]
    /\ wsAvailable \in BOOLEAN
    /\ built = "no"
    /\ api_key = ""
    /\ secret = ""
    /\ AlertIdle

\* stream = AlpacaStream(symbols, on_tick)
Construct ==
    /\ built = "no"
    /\ LET r == AlpacaStream_init(wsAvailable, environ) IN
        /\ built' = IF r.raised = "none" THEN "ok" ELSE r.raised
        /\ api_key' = r.api_key
        /\ secret' = r.secret
    /\ UNCHANGED <<environ, wsAvailable, streamVars>>

\* run(), called by the application: self._running = True
StreamRun ==
    /\ connects = 0
    /\ runPc = "idle"
    /\ running' = TRUE
    /\ connects' = 1
    /\ runPc' = "create"
    /\ UNCHANGED <<ws, timers, stopPc, sent, delivered, closeLog, scheduled, msgs, msgLog>>

\* a reconnect timer fires and calls run(): self._running = True
TimerFire ==
    /\ timers # <<>>
    /\ runPc = "idle"
    /\ connects < MaxConnects
    /\ timers' = Tail(timers)
    /\ running' = TRUE
    /\ connects' = connects + 1
    /\ runPc' = "create"
    /\ UNCHANGED <<ws, stopPc, sent, delivered, closeLog, scheduled, msgs, msgLog>>

\* run(): self._ws = WebSocketApp(...); self._ws.run_forever(...)
RunConnect ==
    /\ runPc = "create"
    /\ ws' = "connecting"
    /\ sent' = <<>>
    /\ runPc' = "forever"
    /\ UNCHANGED <<running, timers, stopPc, delivered, connects, closeLog, scheduled, msgs, msgLog>>

\* _on_open: send the auth request
OnOpen ==
    /\ runPc = "forever"
    /\ ws = "connecting"
    /\ ws' = "open"
    /\ sent' = Append(sent, "auth")
    /\ UNCHANGED <<running, timers, runPc, stopPc, delivered, connects, closeLog,
                   scheduled, msgs, msgLog>>

\* on_tick as wired in the docstring; an exception of the store leaves it
on_tick(st, t, dbOk) ==
    LET r == insert_tick(conn, st.store, t, dbOk) IN
    IF r.raised
    THEN [st EXCEPT !.delivered = @ + 1, !.tick = Some(t),
                    !.outcome = Append(@, Some(t))]
    ELSE LET h == get_recent(r.store, t.symbol, 50)
             d == detect(DefaultDetector, t, h)
         IN [st EXCEPT !.store = r.store, !.delivered = @ + 1, !.tick = Some(t),
                       !.history = h, !.fired = d.signals,
                       !.outcome = Append(@, Some(t))]

\* the for-loop body handling an error event like a trade event
OnEvent_ErrorAsTrade(st, event, now, dbOk) ==
    IF event.T = "success" /\ event.msg = "authenticated"
    THEN [st EXCEPT !.sent = Append(@, "subscribe"), !.outcome = Append(@, None)]
    ELSE IF event.T = "t"
    THEN LET p == _parse_trade(event, now) IN
         IF p.raised THEN [st EXCEPT !.outcome = Append(@, None)]
         ELSE on_tick(st, Val(p.tick), dbOk)
    ELSE on_tick(st, [symbol |-> "", timestamp |-> now, price |-> 0, volume |-> 0,
                      open |-> Some(0), high |-> Some(0), low |-> Some(0),
                      vwap |-> None], dbOk)

\* the body of the for-loop of _on_message for one event; an error event and
\* a trade that fails to parse are logged only
OnEvent(st, event, now, dbOk) ==
    IF event.T = "success" /\ event.msg = "authenticated"
    THEN [st EXCEPT !.sent = Append(@, "subscribe"), !.outcome = Append(@, None)]
    ELSE IF event.T = "t"
    THEN LET p == _parse_trade(event, now) IN
         IF p.raised THEN [st EXCEPT !.outcome = Append(@, None)]
         ELSE on_tick(st, Val(p.tick), dbOk)
    ELSE [st EXCEPT !.outcome = Append(@, None)]

RECURSIVE OnEvents(_, _, _, _)
OnEvents(st, events, now, dbOk) ==
    IF events = <<>> THEN st
    ELSE OnEvents(OnEvent(st, events[1], now, dbOk), Tail(events), now, dbOk)

\* _on_message: every event of one inbound message, in order
OnMessage ==
    /\ runPc = "forever"
    /\ ws = "open"
    /\ msgs < MaxMessages
    /\ \E m \in Messages, now \in Clock, dbOk \in BOOLEAN :
        LET st == OnEvents([store |-> store, sent |-> sent, delivered |-> delivered,
                            tick |-> tick, history |-> history, fired |-> fired,
                            outcome |-> <<>>],
                           m, now, dbOk)
        IN /\ msgLog' = Append(msgLog, [message |-> m, delivered |-> st.outcome,
                                        connect |-> connects])
           /\ store' = st.store
           /\ sent' = st.sent
           /\ delivered' = st.delivered
           /\ tick' = st.tick
           /\ history' = st.history
           /\ fired' = st.fired
    /\ msgs' = msgs + 1
    /\ UNCHANGED <<running, ws, timers, runPc, stopPc, connects, closeLog, scheduled>>

\* the connection ends (refused, dropped by the peer, or closed by stop):
\* run_forever calls _on_close and returns, and so does run()
OnClose ==
    /\ runPc = "forever"
    /\ ws \in {"connecting", "open", "closing"}
    /\ ws' = "closed"
    /\ timers' = _on_close(running, timers)
    /\ scheduled' = scheduled + (Len(timers') - Len(timers))
    /\ closeLog' = Append(closeLog, running)
    /\ runPc' = "idle"
    /\ UNCHANGED <<running, stopPc, sent, delivered, connects, msgs, msgLog>>

\* stop(): self._running = False
StopFlag ==
    /\ stopPc = "idle"
    /\ running' = FALSE
    /\ stopPc' = "close"
    /\ UNCHANGED <<ws, timers, runPc, sent, delivered, connects, closeLog, scheduled, msgs, msgLog>>

\* stop(): if self._ws: self._ws.close(); then stop() returns
StopClose ==
    /\ stopPc = "close"
    /\ ws' = IF ws \in {"connecting", "open"} THEN "closing" ELSE ws
    /\ stopPc' = "returned"
    /\ UNCHANGED <<running, timers, runPc, sent, delivered, connects, closeLog,
                   scheduled, msgs, msgLog>>

StreamOnly == UNCHANGED <<storeVars, pollVars, detectVars, bufferVars, sharedVars, alertVars>>

\* a method or callback of the object runs: the object was constructed, and
\* nothing assigns api_key or secret after __init__
Built == built = "ok" /\ UNCHANGED ctorVars

NextStream ==
    \/ Construct /\ StreamOnly
    \/ StreamRun /\ Built /\ StreamOnly
    \/ TimerFire /\ Built /\ StreamOnly
    \/ RunConnect /\ Built /\ StreamOnly
    \/ OnOpen /\ Built /\ StreamOnly
    \/ OnMessage /\ Built /\ UNCHANGED <<conn, rt, rq, raised, pending, pc, iteration, symIdx, yfOk,
                                sweepLog, lastFire, lastFetch, interrupted, max_iterations,
                                errors, sleeps, detectVars, bufferVars, sharedVars, alertVars>>
    \/ OnClose /\ Built /\ StreamOnly
    \/ StopFlag /\ Built /\ StreamOnly
    \/ StopClose /\ Built /\ StreamOnly

SpecStream == InitStream /\ [][NextStream]_vars

\* C1 as claimed: when stop() has returned while a reconnect timer is
\* pending, that timer never calls run() and _running stays false.
C1_StopPreventsReconnect ==
    [][(stopPc = "returned" /\ timers # <<>> /\ ~running) =>
            (connects' = connects /\ ~running')]_vars

CountTrue(s) == Cardinality({i \in 1..Len(s) : s[i]})

\* C5: a close seen with _running true starts exactly one timer, of 5
\* seconds, whose firing calls run(); a close seen with _running false
\* starts none; never more timers than such closes, never two pending.
C5_OneReconnectPerClose ==
    /\ [](/\ scheduled = CountTrue(closeLog)
          /\ Len(timers) <= 1
          /\ \A i \in 1..Len(timers) : timers[i] = [delay |-> ReconnectDelay, fn |-> "run"])
    /\ [][/\ Len(closeLog') = Len(closeLog) + 1 =>
                Len(timers') = Len(timers) + (IF running THEN 1 ELSE 0)
          /\ Len(timers') < Len(timers) =>
                (connects' = connects + 1 /\ runPc' = "create")]_vars

\* after a reconnect the connection closed again: two closes, two timers
\* started, the second one pending
C5_Witness ==
    /\ Len(closeLog) = 2
    /\ closeLog[1] /\ closeLog[2]
    /\ Len(timers) = 1
    /\ scheduled = 2
    /\ connects = 2

\* a trade event with every field present and well-formed
WellFormed(event) ==
    /\ event.T = "t"
    /\ ~IsNone(event.S)
    /\ event.p.kind = "num" /\ event.s.kind = "num" /\ event.t.kind = "iso"

\* event k of entry i of msgLog comes after an error event received on the
\* same connection: later in the same message, or in a later message
AfterError(i, k) ==
    \/ \E j \in 1..(k - 1) : msgLog[i].message[j].T = "error"
    \/ \E h \in 1..(i - 1) :
        /\ msgLog[h].connect = msgLog[i].connect
        /\ \E j \in 1..Len(msgLog[h].message) : msgLog[h].message[j].T = "error"

\* C18: an inbound error event delivers no Tick; handling a message does not
\* close the connection or change _running; and the events that follow an
\* error event on the same connection are still processed: every one is
\* handled, and a well-formed trade among them is delivered as its Tick.
C18_ErrorEventHarmless ==
    /\ [](\A i \in 1..Len(msgLog) :
            /\ Len(msgLog[i].delivered) = Len(msgLog[i].message)
            /\ \A k \in 1..Len(msgLog[i].message) :
                LET event == msgLog[i].message[k] IN
                /\ event.T = "error" => msgLog[i].delivered[k] = None
                /\ (AfterError(i, k) /\ WellFormed(event)) =>
                      /\ msgLog[i].delivered[k] # None
                      /\ Val(msgLog[i].delivered[k]).symbol = Val(event.S)
                      /\ Val(msgLog[i].delivered[k]).price = event.p.v)
    /\ [][msgLog' # msgLog =>
            /\ ws = "open" /\ ws' = "open"
            /\ running' = running
            /\ timers' = timers /\ runPc' = runPc]_vars

\* an error event followed in its message by a trade that is delivered, then
\* a second message on the same connection whose trade is delivered too,
\* and the connection is still open
C18_Witness ==
    /\ Len(msgLog) = 2
    /\ msgLog[1].connect = msgLog[2].connect
    /\ msgLog[1].message[1].T = "error"
    /\ Len(msgLog[1].message) = 2 /\ msgLog[1].delivered[2] # None
    /\ WellFormed(msgLog[2].message[1]) /\ msgLog[2].delivered[1] # None
    /\ ws = "open" /\ running /\ delivered = 2

\* a trade event that lacks its symbol, price, size or timestamp or carries
\* text in place of one of them
Malformed(event) == event.T = "t" /\ ~WellFormed(event)

\* C19 as claimed: a malformed trade event is skipped: no Tick is delivered
\* for it.
C19_MalformedTradeSkipped ==
    \A i \in 1..Len(msgLog) :
        \A k \in 1..Len(msgLog[i].message) :
            Malformed(msgLog[i].message[k]) => msgLog[i].delivered[k] = None

\* an authentication-success event was received on the connection of entry i
\* of msgLog before event k of that entry
AfterAuth(i, k) ==
    \/ \E j \in 1..(k - 1) : msgLog[i].message[j] = AuthSuccess
    \/ \E h \in 1..(i - 1) :
        /\ msgLog[h].connect = msgLog[i].connect
        /\ \E j \in 1..Len(msgLog[h].message) : msgLog[h].message[j] = AuthSuccess

\* the authentication-success events received on the current connection
AuthsReceived ==
    Sum([i \in 1..Len(msgLog) |->
            IF msgLog[i].connect = connects
            THEN Cardinality({j \in 1..Len(msgLog[i].message) :
                                 msgLog[i].message[j] = AuthSuccess})
            ELSE 0])

\* the auth request is the first message sent on every connection, and one
\* subscribe request follows each authentication-success event received on
\* that connection
AuthThenSubscribe ==
    runPc = "forever" =>
        /\ ws = "open" => sent # <<>>
        /\ sent # <<>> => sent[1] = "auth"
        /\ \A i \in 2..Len(sent) : sent[i] = "subscribe"
        /\ Len(sent) = (IF sent = <<>> THEN 0 ELSE 1) + AuthsReceived

\* C24 as claimed: auth is sent first, subscribe only after an
\* authentication success on the same connection, and a trade event is
\* delivered as a Tick only after the authentication success (and so the
\* subscribe) of its connection.
C24_ProtocolOrder ==
    /\ AuthThenSubscribe
    /\ \A i \in 1..Len(msgLog) :
          \A k \in 1..Len(msgLog[i].message) :
              msgLog[i].delivered[k] # None => AfterAuth(i, k)

\* the reconnect timer fires once its delay has passed, and the thread that
\* entered run() goes on to open the connection
SpecStreamFair ==
    /\ SpecStream
    /\ WF_vars(TimerFire /\ Built /\ StreamOnly)
    /\ WF_vars(RunConnect /\ Built /\ StreamOnly)

\* C25: every close seen with _running true starts a timer of the same 5
\* seconds, however many closes came before; and after the n-th such close,
\* for every n short of the bound of the model, run() is called again and
\* makes connect attempt n + 1.
C25_FlatUnboundedRetry ==
    /\ [][(Len(closeLog') = Len(closeLog) + 1 /\ running) =>
            timers' = Append(timers, [delay |-> ReconnectDelay, fn |-> "run"])]_vars
    /\ \A n \in 1..(MaxConnects - 1) :
          (Len(closeLog) = n /\ closeLog[n] /\ connects = n)
              ~> (connects = n + 1 /\ runPc = "forever" /\ ws = "connecting")

\* every connection so far closed without a message received, each close
\* was followed by a new attempt, and the last attempt the model allows is
\* under way
C25_Witness ==
    /\ connects = MaxConnects
    /\ Len(closeLog) = MaxConnects - 1
    /\ \A i \in 1..Len(closeLog) : closeLog[i]
    /\ scheduled = MaxConnects - 1
    /\ msgs = 0
    /\ runPc = "forever" /\ ws = "connecting"

\* C23: when ALPACA_API_KEY or ALPACA_SECRET_KEY is unset or empty the
\* constructor raises and no object results; an object that exists carries
\* the non-empty key and secret of the environment; and run() has started
\* only on such an object.
C23_ConstructionNeedsCredentials ==
    /\ (built # "no" /\ (environ_get(environ.key) = "" \/ environ_get(environ.secret) = ""))
          => built \in {"ImportError", "EnvironmentError"}
    /\ built = "ok" =>
          /\ api_key # "" /\ secret # ""
          /\ environ.key = Some(api_key) /\ environ.secret = Some(secret)
    /\ (connects > 0 \/ running \/ ws # "none" \/ runPc # "idle") =>
          (built = "ok" /\ api_key # "" /\ secret # "")

\* the key is set, the secret is set but empty, the library is installed:
\* the constructor raised EnvironmentError and nothing was ever started
C23_Witness ==
    /\ built = "EnvironmentError"
    /\ wsAvailable
    /\ environ.key = Some("k") /\ environ.secret = Some("")
    /\ connects = 0 /\ ~running /\ ws = "none"

(***************************************************************************)
(* SpecDetect: one SignalDetector, called with a tick and a history and,   *)
(* before or between such calls, with the same tick and other histories.   *)
(***************************************************************************)
\* SignalDetector(...) with every threshold and min_history given
CustomDetector ==
    [price_spike_zscore |-> <<2, 1>>,
     volume_surge_multiplier |-> <<188, 125>>,
     volatility_burst_multiplier |-> <<2, 1>>,
     vwap_deviation_pct |-> <<1, 1>>,
     min_history |-> 1]

\* the detectors constructed: SignalDetector(), SignalDetector(min_history=3)
\* and CustomDetector
Detectors == {DefaultDetector, [DefaultDetector EXCEPT !.min_history = 3], CustomDetector}

\* a tick of a feed that carries no open, high or low
Bare(t) == [t EXCEPT !.open = None, !.high = None, !.low = None]

\* the earlier ticks of a history: two quiet bars and a bare tick of volume 0
PastTicks ==
    {Tick("AAPL", MinTs, 100, 125, None), Tick("AAPL", MinTs, 101, 125, None),
     Bare(Tick("AAPL", MinTs, 100, 0, None))}

\* the trade events whose ticks are passed to detect
StreamTrades == {TradeEvent(Some("AAPL"), Num(104), Num(188), IsoZ(MaxTs))}

\* the ticks _parse_trade makes of them
StreamTicks == {Val(_parse_trade(e, MaxTs).tick) : e \in StreamTrades}

\* the ticks passed to detect: a quiet bar; a bar far above the earlier
\* prices, volumes and ranges; a bar below them with vwap 0; a bar exactly 1 %
\* below its vwap; a bare tick far below its vwap; and the stream ticks
DetectTicks ==
    {Tick("AAPL", MaxTs, 100, 125, None),
     [Tick("AAPL", MaxTs, 104, 188, Some(100)) EXCEPT !.high = Some(110), !.low = Some(100)],
     Tick("AAPL", MaxTs, 97, 375, Some(0)),
     Tick("AAPL", MaxTs, 99, 125, Some(100)),
     Bare(Tick("AAPL", MaxTs, 100, 0, Some(200)))}
        \cup StreamTicks

SeqsUpTo(S, n) == UNION {[1..k -> S] : k \in 0..n}

\* the histories passed with tick t: up to MaxHist earlier ticks, with or
\* without t as the final element
Histories(t) ==
    SeqsUpTo(PastTicks, MaxHist) \cup {h \o <<t>> : h \in SeqsUpTo(PastTicks, MaxHist)}

\* the histories of the other calls: quiet bars, and bare ticks only
OtherHistories ==
    {<<Tick("AAPL", MinTs, 100, 125, None), Tick("AAPL", MinTs, 101, 125, None),
       Tick("AAPL", MinTs, 100, 125, None)>>,
     [i \in 1..3 |-> Bare(Tick("AAPL", MinTs, 100, 0, None))]}

InitDetect ==
    /\ StoreIdle /\ PollIdle /\ StreamIdle
    /\ detector \in Detectors
    /\ dTick \in DetectTicks
    /\ dHistory \in Histories(dTick)
    /\ calls = <<>>
    /\ BufferIdle
    /\ SharedIdle
    /\ CtorIdle
    /\ AlertIdle

\* detect with learning thresholds: each call raises self.min_history
detect_effect_adapting(det, t, hist) ==
    [detector |-> [det EXCEPT !.min_history = det.min_history + 1], tick |-> t,
     history |-> hist]

\* the objects after detect(t, hist) on det: detect and the four checks
\* assign no attribute of self or of the tick, and past is a new list
detect_effect(det, t, hist) == [detector |-> det, tick |-> t, history |-> hist]

\* detector.detect(dTick, dHistory)
Detect ==
    /\ Len(calls) < MaxCalls
    /\ LET out == detect(detector, dTick, dHistory)
           eff == detect_effect(detector, dTick, dHistory)
       IN /\ calls' = Append(calls, [tick |-> dTick, history |-> dHistory, out |-> out])
          /\ detector' = eff.detector
          /\ dTick' = eff.tick
          /\ dHistory' = eff.history

\* detector.detect(dTick, h) for another history h
DetectOther ==
    /\ Len(calls) < MaxCalls
    /\ \E h \in OtherHistories :
        LET out == detect(detector, dTick, h)
            eff == detect_effect(detector, dTick, h)
        IN /\ calls' = Append(calls, [tick |-> dTick, history |-> h, out |-> out])
           /\ detector' = eff.detector
           /\ dTick' = eff.tick
    /\ UNCHANGED dHistory

DetectOnly == UNCHANGED <<storeVars, pollVars, streamVars, bufferVars, sharedVars, ctorVars, alertVars>>

NextDetect ==
    \/ Detect /\ DetectOnly
    \/ DetectOther /\ DetectOnly

SpecDetect == InitDetect /\ [][NextDetect]_vars

\* the signals of one type in the result of a call
OfType(c, type) == SelectSeq(c.out.signals, LAMBDA sg : sg.signal_type = type)

\* the call passed the warm-up gate and returned
Passed(c) == Len(c.history) >= detector.min_history /\ ~c.out.raised

\* C12 as claimed: the ratio in the metadata of every VolumeSurge signal that
\* detect returns is at least the detector's volume_surge_multiplier.
C12_RatioAtLeastMultiplier ==
    \A i \in 1..Len(calls) :
        \A k \in 1..Len(OfType(calls[i], "VOLUME_SURGE")) :
            LET ratio == OfType(calls[i], "VOLUME_SURGE")[k].metadata.ratio
                thr == detector.volume_surge_multiplier
            IN ratio[1] * thr[2] >= thr[1] * ratio[2]

\* the history without its final element
ButLast(h) == SubSeq(h, 1, Len(h) - 1)

\* at least one tick of past has volume > 0, the mean of the positive volumes
\* is non-zero, and t.volume divided by that mean is at least thr
SurgeCondition(t, past, thr) ==
    LET pos == {i \in 1..Len(past) : past[i].volume > 0}
        total == Sum([i \in 1..Len(past) |-> IF i \in pos THEN past[i].volume ELSE 0])
    IN /\ pos # {}
       /\ total # 0
       /\ t.volume * Cardinality(pos) * thr[2] >= thr[1] * total

ZSign(t, past) ==
    LET d == Len(past) * t.price - Sum([i \in 1..Len(past) |-> past[i].price])
    IN IF d > 0 THEN 1 ELSE IF d < 0 THEN 0 - 1 ELSE 0

\* past has at least 2 prices, their sample standard deviation is non-zero and
\* |z| >= thr; with m the mean and SS the sum of squared deviations,
\* z^2 = (price - m)^2 * (n - 1) / SS = (n * price - sum)^2 * (n - 1) / (n^2 * SS)
SpikeCondition(t, past, thr) ==
    LET n == Len(past)
        sum == Sum([i \in 1..n |-> past[i].price])
        \* n^2 * SS = sum over i of (n * price_i - sum)^2
        nnSS == Sum([i \in 1..n |-> (n * past[i].price - sum) * (n * past[i].price - sum)])
        nd == n * t.price - sum
    IN /\ n >= 2
       /\ nnSS # 0
       /\ nd * nd * (n - 1) * thr[2] * thr[2] >= thr[1] * thr[1] * nnSS

C15_WarmUpGate ==
    \A i \in 1..Len(calls) :
        Len(calls[i].history) < detector.min_history =>
            calls[i].out = [raised |-> FALSE, signals |-> <<>>]

\* a history one short of min_history gives nothing for a tick for which the
\* same detector returns a PriceSpike, a VolatilityBurst and a VwapDeviation
\* over a history that is long enough
C15_Witness ==
    \E i, j \in 1..Len(calls) :
        /\ Len(calls[i].history) = detector.min_history - 1
        /\ Len(calls[i].history) >= 2
        /\ calls[i].out.signals = <<>>
        /\ calls[j].tick = calls[i].tick
        /\ Len(calls[j].out.signals) = 3

VwapCondition(t, thr) ==
    /\ ~IsNone(t.vwap)
    /\ Val(t.vwap) # 0
    /\ IF Val(t.vwap) > 0
       THEN Abs(t.price - Val(t.vwap)) * 100 * thr[2] >= thr[1] * Val(t.vwap)
       ELSE Abs(t.price - Val(t.vwap)) * 100 * thr[2] <= thr[1] * Val(t.vwap)

BufferCapacity == 50

Pushers == {"pipeline", "worker"}

\* the last n elements of s
LastN(s, n) == SubSeq(s, Len(s) - Min(n, Len(s)) + 1, Len(s))

\* a buffer that drops the entry just appended when it is over capacity
Trimmed_DropsNewest(buf) ==
    IF Len(buf) > BufferCapacity THEN SubSeq(buf, 1, Len(buf) - 1) ELSE buf

\* if len(_signal_buffer) > 50: _signal_buffer.pop(0)
Trimmed(buf) ==
    IF Len(buf) > BufferCapacity THEN Tail(buf) ELSE buf

InitBuffer ==
    /\ StoreIdle /\ PollIdle /\ StreamIdle /\ DetectIdle
    /\ BufferIdle
    /\ SharedIdle
    /\ CtorIdle
    /\ AlertIdle

\* push_signal: with _signal_lock (the lock is acquired)
PushAcquire(th) ==
    /\ bufPc[th] = "idle"
    /\ signal_lock = "free"
    /\ Len(pushed) < MaxPushes
    /\ signal_lock' = th
    /\ bufPc' = [bufPc EXCEPT ![th] = "acquired"]
    /\ UNCHANGED <<signal_buffer, pushed, seen>>

\* push_signal: _signal_buffer.append(sig)
PushAppend(th) ==
    /\ bufPc[th] = "acquired"
    /\ LET sig == Len(pushed) + 1 IN
        /\ signal_buffer' = Append(signal_buffer, sig)
        /\ pushed' = Append(pushed, sig)
    /\ bufPc' = [bufPc EXCEPT ![th] = "appended"]
    /\ UNCHANGED <<signal_lock, seen>>

\* push_signal: the length test, the pop, and the release of the lock
PushTrim(th) ==
    /\ bufPc[th] = "appended"
    /\ signal_buffer' = Trimmed(signal_buffer)
    /\ signal_lock' = "free"
    /\ bufPc' = [bufPc EXCEPT ![th] = "idle"]
    /\ UNCHANGED <<pushed, seen>>

\* api_signals: with _signal_lock (the lock is acquired)
ReadAcquire ==
    /\ bufPc["reader"] = "idle"
    /\ signal_lock = "free"
    /\ signal_lock' = "reader"
    /\ bufPc' = [bufPc EXCEPT !["reader"] = "acquired"]
    /\ UNCHANGED <<signal_buffer, pushed, seen>>

\* api_signals: return jsonify(list(_signal_buffer)), releasing the lock
ReadCopy ==
    /\ bufPc["reader"] = "acquired"
    /\ seen' = Some(signal_buffer)
    /\ signal_lock' = "free"
    /\ bufPc' = [bufPc EXCEPT !["reader"] = "idle"]
    /\ UNCHANGED <<signal_buffer, pushed>>

BufferOnly == UNCHANGED <<storeVars, pollVars, streamVars, detectVars, sharedVars, ctorVars, alertVars>>

NextBuffer ==
    \/ (\E th \in Pushers : PushAcquire(th)) /\ BufferOnly
    \/ (\E th \in Pushers : PushAppend(th)) /\ BufferOnly
    \/ (\E th \in Pushers : PushTrim(th)) /\ BufferOnly
    \/ ReadAcquire /\ BufferOnly
    \/ ReadCopy /\ BufferOnly

SpecBuffer == InitBuffer /\ [][NextBuffer]_vars

\* C21: whenever no push_signal call is inside its critical section, the
\* buffer holds at most 50 entries and they are the most recent min(k, 50)
\* of the k signals pushed, in push order; every list a reader obtained has
\* at most 50 entries and is such a window of the pushes made before it.
C21_RecentSignalBuffer ==
    /\ signal_lock \notin Pushers =>
          /\ Len(signal_buffer) <= BufferCapacity
          /\ signal_buffer = LastN(pushed, BufferCapacity)
    /\ ~IsNone(seen) =>
          /\ Len(Val(seen)) <= BufferCapacity
          /\ \E k \in 0..Len(pushed) :
                Val(seen) = LastN(SubSeq(pushed, 1, k), BufferCapacity)

\* 52 signals were pushed by interleaved callers, the two oldest were
\* dropped, and a reader has obtained the 50 entries that remain
C21_Witness ==
    /\ Len(pushed) = 52
    /\ signal_lock = "free"
    /\ Len(signal_buffer) = 50 /\ signal_buffer[1] = 3 /\ signal_buffer[50] = 52
    /\ seen = Some(signal_buffer)
(***************************************************************************)
(* SpecShared: the database file data/ticks.db under one writer and        *)
(* several readers.  The writer is the pipeline thread calling insert_tick *)
(* on DataStore.conn; get_recent and get_range run on that same connection *)
(* (check_same_thread=False lets other threads use it); the dashboard      *)
(* reads through a connection of its own.  SQLite publishes a transaction  *)
(* to the other connections at commit, whole or not at all; a connection   *)
(* sees its own open transaction.                                          *)
(***************************************************************************)
SharedTicks ==
    {Tick("AAPL", MinTs, 100, 10, None), Tick("AAPL", MaxTs, 101, 20, Some(100)),
     Tick("MSFT", MinTs, 100, 10, Some(100))}

\* the default windows: get_recent(symbol, n=50), get_ticks(symbol, limit=60)
RecentWindow == 50
TicksWindow == 60

\* insert_tick: self.conn.execute(INSERT ...) writes one row into the
\* transaction of the connection
execute_insert(file, tx, t) == Append(tx, TickToRow(file \o tx, t))

\* a commit that publishes nothing
commit_lost(file, tx) == file

\* insert_tick: self.conn.commit() publishes the transaction
commit(file, tx) == file \o tx

\* what a statement on DataStore.conn reads, and what one on another
\* connection reads
OwnView == dbfile \o txn
OtherView == dbfile

\* the dict get_ticks builds from a row
TickDict(r) ==
    [ts |-> r.ts, price |-> r.price, volume |-> r.volume,
     high |-> r.high, low |-> r.low, vwap |-> r.vwap]

\* dashboard get_ticks: SELECT ts, price, volume, high, low, vwap ... WHERE
\* symbol = ? ORDER BY ts DESC LIMIT ?, reversed
get_ticks(rows, sym, limit) ==
    LET sel == Limit(OrderByTsDesc(WhereSymbol(rows, sym)), limit)
        rev == Reverse(sel)
    IN [i \in 1..Len(rev) |-> TickDict(rev[i])]

InitShared ==
    /\ StoreIdle /\ PollIdle /\ StreamIdle /\ DetectIdle /\ BufferIdle
    /\ SharedIdle
    /\ CtorIdle
    /\ AlertIdle

\* insert_tick(t), up to the commit
SharedExecute ==
    /\ IsNone(wTick)
    /\ Len(returned) < MaxShared
    /\ \E t \in SharedTicks :
        /\ txn' = execute_insert(dbfile, txn, t)
        /\ wTick' = Some(t)
    /\ UNCHANGED <<dbfile, returned, lastRead>>

\* insert_tick(t): the commit, and the return
SharedCommit ==
    /\ ~IsNone(wTick)
    /\ dbfile' = commit(dbfile, txn)
    /\ txn' = <<>>
    /\ returned' = Append(returned, Val(wTick))
    /\ wTick' = None
    /\ UNCHANGED lastRead

\* get_recent(sym) called on DataStore.conn by any thread
SharedGetRecent ==
    /\ \E sym \in SymbolSet :
        lastRead' = [called |-> TRUE, by |-> "store", op |-> "get_recent", symbol |-> sym,
                     after |-> returned, inflight |-> wTick,
                     result |-> get_recent(OwnView, sym, RecentWindow)]
    /\ UNCHANGED <<dbfile, txn, wTick, returned>>

\* get_range(sym, start, end) called on DataStore.conn by any thread
SharedGetRange ==
    /\ \E sym \in SymbolSet :
        lastRead' = [called |-> TRUE, by |-> "store", op |-> "get_range", symbol |-> sym,
                     after |-> returned, inflight |-> wTick,
                     result |-> get_range(OwnView, sym, isoformat(MinTs), isoformat(MaxTs))]
    /\ UNCHANGED <<dbfile, txn, wTick, returned>>

\* get_ticks(sym) of the dashboard, on its own connection
SharedGetTicks ==
    /\ \E sym \in SymbolSet :
        lastRead' = [called |-> TRUE, by |-> "dashboard", op |-> "get_ticks", symbol |-> sym,
                     after |-> returned, inflight |-> wTick,
                     result |-> get_ticks(OtherView, sym, TicksWindow)]
    /\ UNCHANGED <<dbfile, txn, wTick, returned>>

SharedOnly == UNCHANGED <<storeVars, pollVars, streamVars, detectVars, bufferVars, ctorVars, alertVars>>

NextShared ==
    \/ SharedExecute /\ SharedOnly
    \/ SharedCommit /\ SharedOnly
    \/ SharedGetRecent /\ SharedOnly
    \/ SharedGetRange /\ SharedOnly
    \/ SharedGetTicks /\ SharedOnly

SpecShared == InitShared /\ [][NextShared]_vars

\* what a read of the given kind returns for tick t
Observed(op, t) ==
    IF op = "get_ticks"
    THEN [ts |-> isoformat(t.timestamp), price |-> t.price, volume |-> t.volume,
          high |-> t.high, low |-> t.low, vwap |-> t.vwap]
    ELSE t

\* C22: a read made after insert_tick(t) returned observes t (its result
\* holds t's record when t is of the symbol asked for, the windows and the
\* range covering every stored tick); and every record a read returns is
\* the record of one tick passed to insert_tick, with all the fields the
\* read selects, at every interleaving with the writer.
C22_ReadsSeeWholeTicks ==
    lastRead.called =>
        /\ \A i \in 1..Len(lastRead.after) :
              LET t == lastRead.after[i] IN
              t.symbol = lastRead.symbol =>
                 \E k \in 1..Len(lastRead.result) :
                     lastRead.result[k] = Observed(lastRead.op, t)
        /\ \A k \in 1..Len(lastRead.result) :
              \E t \in SharedTicks :
                  /\ lastRead.result[k] = Observed(lastRead.op, t)
                  /\ \/ \E i \in 1..Len(lastRead.after) : lastRead.after[i] = t
                     \/ lastRead.inflight = Some(t)
        /\ Len(lastRead.result) >=
              Cardinality({i \in 1..Len(lastRead.after) :
                              lastRead.after[i].symbol = lastRead.symbol})

\* the dashboard read while a third insert was between execute and commit:
\* it saw the two ticks whose inserts had returned and nothing of the third
C22_Witness ==
    /\ lastRead.called /\ lastRead.by = "dashboard"
    /\ Len(lastRead.after) = 2
    /\ lastRead.after[1].symbol = "AAPL" /\ lastRead.after[2].symbol = "AAPL"
    /\ lastRead.inflight # None /\ Val(lastRead.inflight).symbol = "AAPL"
    /\ lastRead.symbol = "AAPL"
    /\ Len(lastRead.result) = 2
\* the tick with high and low present (a flat range at its price)
WithRange(t) == [t EXCEPT !.high = Some(t.price), !.low = Some(t.price)]

\* the types among PriceSpike, VolumeSurge and VwapDeviation in a result
FiredOther(out) ==
    {type \in {"PRICE_SPIKE", "VOLUME_SURGE", "VWAP_DEVIATION"} :
        \E k \in 1..Len(out.signals) : out.signals[k].signal_type = type}

\* C27 as claimed: with a history of at least min_history ticks detect
\* returns normally whether or not the tick carries open, high, low or vwap,
\* and PriceSpike, VolumeSurge and VwapDeviation fire as they do for the same
\* tick with high and low present.
C27_DetectToleratesAbsentFields ==
    \A i \in 1..Len(calls) :
        Len(calls[i].history) >= detector.min_history =>
            /\ ~calls[i].out.raised
            /\ FiredOther(calls[i].out) =
                  FiredOther(detect(detector, WithRange(calls[i].tick), calls[i].history))
\* C29: for a tick made by _parse_trade (high = low = price, no vwap) and
\* any history of bars and trade ticks, detect returns normally and returns
\* neither a VolatilityBurst nor a VwapDeviation signal.
C29_StreamTickSignals ==
    \A i \in 1..Len(calls) :
        calls[i].tick \in StreamTicks =>
            /\ calls[i].tick.high = Some(calls[i].tick.price)
            /\ calls[i].tick.low = Some(calls[i].tick.price)
            /\ calls[i].tick.vwap = None
            /\ ~calls[i].out.raised
            /\ OfType(calls[i], "VOLATILITY_BURST") = <<>>
            /\ OfType(calls[i], "VWAP_DEVIATION") = <<>>

\* a stream tick, after earlier bars that have a range, passed the warm-up
\* gate and fired PriceSpike and VolumeSurge and nothing else
C29_Witness ==
    \E i \in 1..Len(calls) :
        /\ calls[i].tick \in StreamTicks
        /\ Len(calls[i].history) >= detector.min_history
        /\ \E k \in 1..(Len(calls[i].history) - 1) :
              /\ ~IsNone(calls[i].history[k].high)
              /\ Val(calls[i].history[k].high) > Val(calls[i].history[k].low)
        /\ OfType(calls[i], "PRICE_SPIKE") # <<>>
        /\ OfType(calls[i], "VOLUME_SURGE") # <<>>
        /\ Len(calls[i].out.signals) = 2
(***************************************************************************)
(* SpecAlert: an AlertManager constructed with or without a channel list,  *)
(* then fired.                                                             *)
(***************************************************************************)
\* the channels arguments: none, the empty list, the dashboard's list, and
\* a list of two channels
ChannelLists ==
    {None, Some(<<>>), Some(<<"DashboardChannel">>),
     Some(<<"SlackChannel", "ConsoleChannel">>)}

SignalTypes == {"PRICE_SPIKE", "VOLUME_SURGE", "VOLATILITY_BURST", "VWAP_DEVIATION"}

InitAlert ==
    /\ StoreIdle /\ PollIdle /\ StreamIdle /\ DetectIdle /\ BufferIdle /\ SharedIdle
    /\ CtorIdle
    /\ alertArg \in ChannelLists
    /\ mgrBuilt = FALSE
    /\ mgrChannels = <<>>
    /\ fireLog = <<>>

\* alerts = AlertManager(channels=alertArg), or AlertManager() for None
AlertConstruct ==
    /\ ~mgrBuilt
    /\ mgrBuilt' = TRUE
    /\ mgrChannels' = AlertManager_init(alertArg)
    /\ UNCHANGED <<alertArg, fireLog>>

\* alerts.fire(signal)
AlertFire ==
    /\ mgrBuilt
    /\ Len(fireLog) < MaxFires
    /\ \E type \in SignalTypes, failing \in SUBSET (1..Len(mgrChannels)) :
        fireLog' = Append(fireLog, [signal |-> type,
                                    sends |-> fire(mgrChannels, failing).sends])
    /\ UNCHANGED <<alertArg, mgrBuilt, mgrChannels>>

AlertOnly == UNCHANGED <<storeVars, pollVars, streamVars, detectVars, bufferVars, sharedVars, ctorVars>>

NextAlert ==
    \/ AlertConstruct /\ AlertOnly
    \/ AlertFire /\ AlertOnly

SpecAlert == InitAlert /\ [][NextAlert]_vars

\* C28 as claimed: a manager constructed with a channel list, the empty
\* list included, dispatches every fired signal to exactly the channels of
\* that list, in order; the default console and file channels are used only
\* when no list was supplied.
C28_ExplicitChannelsOnly ==
    LET expected == IF IsNone(alertArg) THEN DefaultChannels ELSE Val(alertArg) IN
    /\ mgrBuilt => mgrChannels = expected
    /\ \A i \in 1..Len(fireLog) :
          /\ Len(fireLog[i].sends) = Len(expected)
          /\ \A k \in 1..Len(expected) : fireLog[i].sends[k].channel = expected[k]

====
